---- MODULE Spec2Model ----
(***************************************************************************)
(* The ProxyContent view (src/unnamed/part_000): one view instance with    *)
(* its four pieces of React state, the fetch cycles started by             *)
(* fetchContent and the continuations of their awaits.                     *)
(*                                                                         *)
(* A nullable JavaScript value is a sequence of length at most one: <<>>   *)
(* is null, <<v>> is the value v.  A string the code inspects by           *)
(* substring or prefix is the set (content type) or sequence (URL, error   *)
(* message) of the parts it is made of.                                    *)
(***************************************************************************)
EXTENDS Integers, Sequences, FiniteSets, TLC

(* ------------------------------ bounds -------------------------------- *)
\* fetch cycles started over the life of the view
MaxCycles == 2
\* recognised MIME substrings one content-type string may contain
MaxNeedles == 2
\* sheets of a workbook
MaxSheets == 2
\* rows of a CSV text
MaxRows == 1
MaxCols == 2
MaxRequests == 2

(* ------------------------- content-type strings ----------------------- *)
PDF == "application/pdf"
IMAGE == "image/"
XLSX == "application/vnd.openxmlformats-officedocument.spreadsheetml.sheet"
XLS == "application/vnd.ms-excel"
CSV == "text/csv"
MSWORD == "application/msword"
DOCX == "application/vnd.openxmlformats-officedocument.wordprocessingml.document"
HTML == "text/html"
PPT == "application/vnd.ms-powerpoint"
PPTX == "application/vnd.openxmlformats-officedocument.presentationml.presentation"
OCTET == "application/octet-stream"

\* No one of the substrings handleContentType looks for contains another, so
\* a content-type string is, for the dispatcher, the set of them it contains.
Needles == {PDF, IMAGE, XLSX, XLS, CSV, MSWORD, DOCX, HTML, PPT, PPTX, OCTET}

\* The content types with several recognised substrings, for the dispatcher.
ContentTypes == {ct \in SUBSET Needles : Cardinality(ct) <= MaxNeedles}

\* The content types servers send: one MIME type, or none.
PlainTypes == {{}} \cup {{needle} : needle \in Needles}

\* String.prototype.includes
Includes(ct, needle) == needle \in ct

(* ------------------------------- URLs --------------------------------- *)
\* A URL is the sequence <<prefix, rest>>; the empty string is <<>>.
EmptyUrl == <<>>
BlobUrl == <<"blob:", "http://localhost:3000/1f0c">>
HttpUrl == <<"http", "s://site.example/report">>
OtherUrl == <<"ftp", "://site.example/file">>

URLs == {EmptyUrl, BlobUrl, HttpUrl, OtherUrl}

\* String.prototype.startsWith
StartsWith(u, prefix) == Len(u) > 0 /\ u[1] = prefix

(* --------------------------- error messages --------------------------- *)
ProxyGuidance == ". Ensure the proxy server is running at http://localhost:5001."

NoUrlMessage == <<"No URL or link provided">>

\* FailedMessage without its closing sentence.
FailedMessageBare(errMessage) == <<"Failed to load content: ", errMessage>>

FailedMessage(errMessage) == <<"Failed to load content: ", errMessage, ProxyGuidance>>

NetworkError == "Failed to fetch"
BlobStatusError == "Blob fetch failed: 404 - Not Found"
ProxyStatusError == "Proxy fetch failed: 500 - Internal Server Error"
XlsxReadError == "File is not a valid workbook"
NoSheetsError == "No valid sheets found in the Excel file"
NoCsvDataError == "No data found in the CSV file"

(* ------------------------------- blobs -------------------------------- *)
\* What a Blob holds, as far as the parsers tell: whether XLSX.read accepts
\* it, how many sheets its workbook has, the rows Papa.parse finds in it, and
\* its text.
NoBlob == [valid |-> TRUE, items |-> 0, text |-> "", data |-> <<>>]

\* result.data of Papa.parse(text, {header: false}): rows of at least one
\* cell, each cell a string, empty or not.
Cells == {"", "x"}
CsvRows == UNION {[1..k -> Cells] : k \in 1..MaxCols}
CsvData == UNION {[1..n -> CsvRows] : n \in 0..(MaxRows + 1)}

\* The CSV texts of one column: n rows of one cell.
PlainCsvData == {[r \in 1..n |-> <<"x">>] : n \in 0..MaxRows}

\* The text of a blob: nothing, HTML markup, or the bytes of a Word file read
\* as text.
HtmlText == "<p>document</p>"
WordBytes == "PK.. word/document.xml (bytes of a Word file)"

Texts == {"", HtmlText, WordBytes}

SheetNamePool == <<"Sheet1", "Data", "Summary", "Notes">>

VARIABLES
  url,          \* the url prop of the current render
  mounted,      \* the mount effect has run
  content,      \* useState(null)
  error,        \* useState(null)
  tableData,    \* useState({ html: null, activeSheet: null })
  htmlContent,  \* useState(null)
  cycles,       \* the fetchContent activations that issued a request, oldest first
  objectUrls,   \* number of URL.createObjectURL calls (none is ever revoked)
  handled,      \* history: the last 'Handling content type:' line of the console,
                \* kept under SpecDispatch only
  dom,          \* contentRef.current, the click listeners added and not removed,
                \* and the element the effect's cleanup holds; kept under
                \* SpecBridge only
  lastClick,    \* history: the last click on the rendered view and what the
                \* listeners made of it
  requests      \* the proxy server: the requests received, each with the
                \* position of its handler and its response

view == <<url, mounted, content, error, tableData, htmlContent, cycles, objectUrls>>

\* What the specifications of the view's state alone leave as it is.
others == <<handled, dom, lastClick, requests>>

vars == <<view, others>>

display == <<content, error, tableData, htmlContent>>

NullTable == [html |-> <<>>, activeSheet |-> <<>>]

\* A finished activation holds nothing any more.
Finished == [pc |-> "done", url |-> EmptyUrl, kind |-> "none", blob |-> NoBlob, mode |-> "none"]

\* Nothing rendered: contentRef.current is null and no listener is attached,
\* on the root element of the view, on the inner container of the table
\* branch, or on an element that has left the document.
NoDom == [ref |-> "none",
          handlers |-> [root |-> 0, inner |-> 0, detached |-> 0],
          cleanup |-> "none"]

NoClick == [branch |-> "none", target |-> "none", posts |-> 0, prevented |-> FALSE]

Init ==
  /\ url \in URLs
  /\ mounted = FALSE
  /\ content = <<>>
  /\ error = <<>>
  /\ tableData = NullTable
  /\ htmlContent = <<>>
  /\ cycles = <<>>
  /\ objectUrls = 0
  /\ handled = [cycle |-> 0, contentType |-> {}]
  /\ dom = NoDom
  /\ lastClick = NoClick
  /\ requests = <<>>

(* ----------------------- the type dispatcher -------------------------- *)
\* Renderer with the image test moved before the PDF test.
RendererImageFirst(ct) ==
  IF Includes(ct, IMAGE) THEN "image"
  ELSE IF Includes(ct, PDF) THEN "pdf"
  ELSE IF Includes(ct, XLSX) \/ Includes(ct, XLS) THEN "spreadsheet"
  ELSE IF Includes(ct, CSV) THEN "csv"
  ELSE IF Includes(ct, MSWORD) \/ Includes(ct, DOCX) \/ Includes(ct, HTML) THEN "html"
  ELSE IF Includes(ct, PPT) \/ Includes(ct, PPTX) THEN "ppt"
  ELSE "other"

\* Renderer with the image test moved after the spreadsheet test.
RendererSheetFirst(ct) ==
  IF Includes(ct, PDF) THEN "pdf"
  ELSE IF Includes(ct, XLSX) \/ Includes(ct, XLS) THEN "spreadsheet"
  ELSE IF Includes(ct, IMAGE) THEN "image"
  ELSE IF Includes(ct, CSV) THEN "csv"
  ELSE IF Includes(ct, MSWORD) \/ Includes(ct, DOCX) \/ Includes(ct, HTML) THEN "html"
  ELSE IF Includes(ct, PPT) \/ Includes(ct, PPTX) THEN "ppt"
  ELSE "other"

\* The if / else-if chain of handleContentType: the renderer a content type
\* selects.
Renderer(ct) ==
  IF Includes(ct, PDF) THEN "pdf"
  ELSE IF Includes(ct, IMAGE) THEN "image"
  ELSE IF Includes(ct, XLSX) \/ Includes(ct, XLS) THEN "spreadsheet"
  ELSE IF Includes(ct, CSV) THEN "csv"
  ELSE IF Includes(ct, MSWORD) \/ Includes(ct, DOCX) \/ Includes(ct, HTML) THEN "html"
  ELSE IF Includes(ct, PPT) \/ Includes(ct, PPTX) THEN "ppt"
  ELSE "other"

\* The renderers that await the blob's bytes or text before they set state.
Awaiting == {"spreadsheet", "csv", "html"}

PptMessage == "PPT/PPTX files cannot be rendered directly. Please download to view."
OtherMessage == "This file type is not directly renderable. Please download to view."

\* The value handed to setContent by a renderer that sets state at once.
ContentFor(kind, objUrl) ==
  IF kind = "pdf" THEN [type |-> "pdf", url |-> objUrl, message |-> <<>>]
  ELSE IF kind = "image" THEN [type |-> "image", url |-> objUrl, message |-> <<>>]
  ELSE IF kind = "ppt" THEN [type |-> "download", url |-> objUrl, message |-> <<PptMessage>>]
  ELSE [type |-> "download", url |-> objUrl, message |-> <<OtherMessage>>]

\* The blobs a response of a given kind may carry.
BlobsFor(kind) ==
  IF kind = "spreadsheet"
    THEN {[NoBlob EXCEPT !.valid = FALSE]}
         \cup {[NoBlob EXCEPT !.items = n] : n \in 0..MaxSheets}
  ELSE IF kind = "csv"
    THEN {[NoBlob EXCEPT !.data = d] : d \in PlainCsvData}
  ELSE IF kind = "html"
    THEN {[NoBlob EXCEPT !.text = t] : t \in Texts}
  ELSE {NoBlob}

\* The Content-Type of the proxy's response for an upstream Content-Type: the
\* upstream one or its default, but text/html for a page it rendered or a
\* .docx document it converted (src/proxy-server/server.js).
ProxyContentType(upstream) ==
  LET contentType == IF upstream # {} THEN upstream ELSE {OCTET}
  IN  IF Includes(contentType, HTML) THEN contentType
      ELSE IF Includes(contentType, DOCX) THEN {HTML}
      ELSE contentType

\* What blob.text() may yield in the Word/HTML branch: a blob reference holds
\* the file itself; the proxy sends markup for text/html (a rendered page, a
\* converted .docx) and passes every other body on as it is.
TextsOf(u, contentType) ==
  IF StartsWith(u, "blob:")
    THEN IF Includes(contentType, MSWORD) \/ Includes(contentType, DOCX)
           THEN {"", WordBytes}
           ELSE {"", HtmlText}
  ELSE IF Includes(contentType, HTML) THEN {"", HtmlText}
  ELSE {"", WordBytes}

\* The blobs handleContentType may hold for a url and a content type.
BlobsOf(u, contentType) ==
  IF Renderer(contentType) = "html"
    THEN {b \in BlobsFor("html") : b.text \in TextsOf(u, contentType)}
    ELSE BlobsFor(Renderer(contentType))

\* workbook.SheetNames.forEach: one entry per sheet, in the workbook's order.
RECURSIVE SheetsOf(_)
SheetsOf(n) ==
  IF n = 0 THEN <<>>
  ELSE Append(SheetsOf(n - 1),
              [name |-> SheetNamePool[n], html |-> <<"sheet_to_html", SheetNamePool[n]>>])

\* name: header?.toString() || `Column ${index + 1}`
ColumnName(header, index) == IF header # "" THEN <<header>> ELSE <<"Column ", index>>

\* CsvSheets with a cell for every cell of the row, not for every column.
CsvSheetsRowCells(data) ==
  <<[name |-> "Sheet1",
     html |-> <<"table",
                IF data = <<>> THEN <<>>
                ELSE [c \in 1..Len(data[1]) |-> ColumnName(data[1][c], c)],
                [r \in 1..(Len(data) - 1) |-> data[r + 1]]>>]>>

\* The one synthetic sheet of a CSV text: a <th> for every cell of the first
\* row, and for every later row a <td> per column, row[colIndex] or ''.
CsvSheets(data) ==
  <<[name |-> "Sheet1",
     html |-> <<"table",
                IF data = <<>> THEN <<>>
                ELSE [c \in 1..Len(data[1]) |-> ColumnName(data[1][c], c)],
                [r \in 1..(Len(data) - 1) |->
                   [c \in 1..Len(data[1]) |->
                      IF c <= Len(data[r + 1]) THEN data[r + 1][c] ELSE ""]]>>]>>

\* Object.keys(sheets)
Keys(sheets) == [k \in 1..Len(sheets) |-> sheets[k].name]

(* --------------------------- fetch cycles ----------------------------- *)
SetCycle(i, rec) == cycles' = [cycles EXCEPT ![i] = rec]

Finish(i) == SetCycle(i, Finished)

\* FallbackMode with the blob fetch copied into the http branch unchanged.
FallbackModeAllCors(u) ==
  IF StartsWith(u, "blob:") THEN "cors"
  ELSE IF StartsWith(u, "http") THEN "cors"
  ELSE "none"

\* The mode of the request the catch block issues, "none" when it issues none.
FallbackMode(u) ==
  IF StartsWith(u, "blob:") THEN "cors"
  ELSE IF StartsWith(u, "http") THEN "no-cors"
  ELSE "none"

\* A catch block that sets the error and fetches again through the try block.
CatchRetries(i, errMessage) ==
  /\ error' = <<FailedMessage(errMessage)>>
  /\ SetCycle(i, [pc |-> "fetch", url |-> cycles[i].url, kind |-> "none", blob |-> NoBlob,
                  mode |-> IF StartsWith(cycles[i].url, "blob:") THEN "cors" ELSE "proxy"])
  /\ UNCHANGED <<url, mounted, content, tableData, htmlContent, objectUrls>>

\* The catch block of fetchContent up to its await.
Catch(i, errMessage) ==
  /\ error' = <<FailedMessage(errMessage)>>
  /\ IF FallbackMode(cycles[i].url) = "none"
       THEN Finish(i)
       ELSE SetCycle(i, [pc |-> "fallback", url |-> cycles[i].url, kind |-> "none",
                         blob |-> NoBlob, mode |-> FallbackMode(cycles[i].url)])
  /\ UNCHANGED <<url, mounted, content, tableData, htmlContent, objectUrls>>

\* fetchContent that resets content, tableData and error but not htmlContent.
fetchContentKeepsHtml(u) ==
  IF u = EmptyUrl
    THEN /\ error' = <<NoUrlMessage>>
         /\ UNCHANGED <<content, tableData, htmlContent, cycles, objectUrls>>
    ELSE /\ Len(cycles) < MaxCycles
         /\ content' = <<>>
         /\ tableData' = NullTable
         /\ error' = <<>>
         /\ cycles' = Append(cycles,
              [pc |-> "fetch", url |-> u, kind |-> "none", blob |-> NoBlob,
               mode |-> IF StartsWith(u, "blob:") THEN "cors" ELSE "proxy"])
         /\ UNCHANGED <<htmlContent, objectUrls>>

\* fetchContent from its call to its first await, for the url of the render
\* whose closure is called.
fetchContent(u) ==
  IF u = EmptyUrl
    THEN /\ error' = <<NoUrlMessage>>
         /\ UNCHANGED <<content, tableData, htmlContent, cycles, objectUrls>>
    ELSE /\ Len(cycles) < MaxCycles
         /\ content' = <<>>
         /\ tableData' = NullTable
         /\ htmlContent' = <<>>
         /\ error' = <<>>
         /\ cycles' = Append(cycles,
              [pc |-> "fetch", url |-> u, kind |-> "none", blob |-> NoBlob,
               mode |-> IF StartsWith(u, "blob:") THEN "cors" ELSE "proxy"])
         /\ UNCHANGED objectUrls

\* useEffect(fetchContent, [url]) on mount.
Mount ==
  /\ ~mounted
  /\ mounted' = TRUE
  /\ fetchContent(url)
  /\ UNCHANGED url

\* The parent renders the view with another url; the effect runs.
UrlChange ==
  /\ mounted
  /\ \E u \in URLs \ {url} :
       /\ url' = u
       /\ fetchContent(u)
  /\ UNCHANGED mounted

\* The Reload button of the error branch.
Reload ==
  /\ mounted
  /\ error # <<>>
  /\ fetchContent(url)
  /\ UNCHANGED <<url, mounted>>

\* handleSheetChange without the spread of the previous value.
handleSheetChangeNoSpread(value) ==
  /\ tableData' = [html |-> <<>>, activeSheet |-> <<value>>]
  /\ UNCHANGED <<url, mounted, content, error, htmlContent, cycles, objectUrls>>

\* handleSheetChange, from the select of the table branch.
handleSheetChange(value) ==
  /\ tableData' = [tableData EXCEPT !.activeSheet = <<value>>]
  /\ UNCHANGED <<url, mounted, content, error, htmlContent, cycles, objectUrls>>

\* The options of the select: Object.keys(tableData.html).
SheetOptions ==
  IF error = <<>> /\ tableData.html # <<>>
    THEN {Keys(tableData.html[1])[k] : k \in 1..Len(tableData.html[1])}
    ELSE {}

SheetChange == \E value \in SheetOptions : handleSheetChange(value)

\* await fetch(...) of the try block settles: a rejection, a response that is
\* not ok, or a response whose body is awaited next.
FetchSettled(i) ==
  /\ cycles[i].pc = "fetch"
  /\ \/ Catch(i, NetworkError)
     \/ Catch(i, IF StartsWith(cycles[i].url, "blob:") THEN BlobStatusError ELSE ProxyStatusError)
     \/ /\ SetCycle(i, [cycles[i] EXCEPT !.pc = "body"])
        /\ UNCHANGED <<url, mounted, content, error, tableData, htmlContent, objectUrls>>

\* The content type handed to handleContentType: blob.type for a blob
\* reference whose file has the type header; through the proxy the header of
\* the proxy's response, or its default, for an upstream response of that type.
ContentTypeOf(u, header) ==
  IF StartsWith(u, "blob:") THEN header
  ELSE IF ProxyContentType(header) # {} THEN ProxyContentType(header)
  ELSE {OCTET}

\* handleContentType from its call to its first await, or to its end when the
\* renderer awaits nothing.
handleContentType(i, contentType) ==
  /\ objectUrls' = objectUrls + 1
  /\ IF Renderer(contentType) \in Awaiting
       THEN /\ \E b \in BlobsOf(cycles[i].url, contentType) :
                 SetCycle(i, [cycles[i] EXCEPT !.pc = "parse", !.kind = Renderer(contentType),
                                               !.blob = b])
            /\ UNCHANGED content
       ELSE /\ content' = <<ContentFor(Renderer(contentType), objectUrls + 1)>>
            /\ Finish(i)
  /\ UNCHANGED <<url, mounted, error, tableData, htmlContent>>

\* await response.blob() settles; on success handleContentType is called.
BodySettled(i, headers) ==
  /\ cycles[i].pc = "body"
  /\ \/ Catch(i, NetworkError)
     \/ \E header \in headers :
          handleContentType(i, ContentTypeOf(cycles[i].url, header))

\* The same with the console line of handleContentType kept in handled.
BodySettledLogged(i, headers) ==
  /\ cycles[i].pc = "body"
  /\ \/ Catch(i, NetworkError) /\ UNCHANGED handled
     \/ \E header \in headers :
          /\ handleContentType(i, ContentTypeOf(cycles[i].url, header))
          /\ handled' = [cycle |-> i, contentType |-> ContentTypeOf(cycles[i].url, header)]

\* TableOf selecting the id given to sheet_to_html, not the sheet's name.
TableOfSheetId(sheets) ==
  [html |-> <<sheets>>, activeSheet |-> <<"sheet-" \o Keys(sheets)[1]>>]

\* The value handed to setTableData for the sheets of a workbook or CSV text.
TableOf(sheets) == [html |-> <<sheets>>, activeSheet |-> <<Keys(sheets)[1]>>]

\* ParseSettled without the test of result.data.length: a CSV text of no
\* rows is rendered like any other.
ParseSettledNoLengthTest(i) ==
  /\ cycles[i].pc = "parse"
  /\ LET kind == cycles[i].kind
         b == cycles[i].blob
         sheets == IF kind = "spreadsheet" THEN SheetsOf(b.items) ELSE CsvSheets(b.data)
     IN  IF kind = "spreadsheet" /\ ~b.valid THEN Catch(i, XlsxReadError)
         ELSE IF kind = "spreadsheet" /\ Len(Keys(sheets)) = 0 THEN Catch(i, NoSheetsError)
         ELSE /\ IF kind = "html"
                   THEN /\ htmlContent' = <<b.text>>
                        /\ UNCHANGED tableData
                   ELSE /\ tableData' = TableOf(sheets)
                        /\ UNCHANGED htmlContent
              /\ Finish(i)
              /\ UNCHANGED <<url, mounted, content, error, objectUrls>>

\* await blob.arrayBuffer() / blob.text() settles and the renderer runs to
\* its end: it sets state or throws into the catch block.
ParseSettled(i) ==
  /\ cycles[i].pc = "parse"
  /\ LET kind == cycles[i].kind
         b == cycles[i].blob
         sheets == IF kind = "spreadsheet" THEN SheetsOf(b.items) ELSE CsvSheets(b.data)
     IN  IF kind = "spreadsheet" /\ ~b.valid THEN Catch(i, XlsxReadError)
         ELSE IF kind = "spreadsheet" /\ Len(Keys(sheets)) = 0 THEN Catch(i, NoSheetsError)
         ELSE IF kind = "csv" /\ Len(b.data) = 0 THEN Catch(i, NoCsvDataError)
         ELSE /\ IF kind = "html"
                   THEN /\ htmlContent' = <<b.text>>
                        /\ UNCHANGED tableData
                   ELSE /\ tableData' = TableOf(sheets)
                        /\ UNCHANGED htmlContent
              /\ Finish(i)
              /\ UNCHANGED <<url, mounted, content, error, objectUrls>>

\* The fetch(...).then(res => res.blob()) of the catch block settles.
FallbackSettled(i) ==
  /\ cycles[i].pc = "fallback"
  /\ \/ /\ content' = <<[type |-> "download", url |-> objectUrls + 1, message |-> <<>>]>>
        /\ objectUrls' = objectUrls + 1
     \/ UNCHANGED <<content, objectUrls>>
  /\ Finish(i)
  /\ UNCHANGED <<url, mounted, error, tableData, htmlContent>>

Next ==
  \/ Mount /\ UNCHANGED others
  \/ UrlChange /\ UNCHANGED others
  \/ Reload /\ UNCHANGED others
  \/ SheetChange /\ UNCHANGED others
  \/ \E i \in DOMAIN cycles : FetchSettled(i) /\ UNCHANGED others
  \/ \E i \in DOMAIN cycles : BodySettled(i, PlainTypes) /\ UNCHANGED others
  \/ \E i \in DOMAIN cycles : ParseSettled(i) /\ UNCHANGED others
  \/ \E i \in DOMAIN cycles : FallbackSettled(i) /\ UNCHANGED others

Spec == Init /\ [][Next]_vars

\* One view whose url never changes, its responses carrying any content type
\* of ContentTypes: the specification of the dispatcher's claims.
NextDispatch ==
  \/ Mount /\ UNCHANGED others
  \/ Reload /\ UNCHANGED others
  \/ SheetChange /\ UNCHANGED others
  \/ \E i \in DOMAIN cycles : FetchSettled(i) /\ UNCHANGED others
  \/ \E i \in DOMAIN cycles :
       BodySettledLogged(i, ContentTypes) /\ UNCHANGED <<dom, lastClick, requests>>
  \/ \E i \in DOMAIN cycles : ParseSettled(i) /\ UNCHANGED others
  \/ \E i \in DOMAIN cycles : FallbackSettled(i) /\ UNCHANGED others

SpecDispatch == Init /\ [][NextDispatch]_vars

\* A view whose cycle has read a text/csv response and waits in the CSV
\* renderer, for every CSV text of CsvData.
InitCsv ==
  /\ url \in {HttpUrl, BlobUrl}
  /\ mounted = TRUE
  /\ content = <<>>
  /\ error = <<>>
  /\ tableData = NullTable
  /\ htmlContent = <<>>
  /\ objectUrls = 1
  /\ handled = [cycle |-> 0, contentType |-> {}]
  /\ dom = NoDom
  /\ lastClick = NoClick
  /\ requests = <<>>
  /\ \E d \in CsvData :
       cycles = <<[pc |-> "parse", url |-> url, kind |-> "csv",
                   blob |-> [NoBlob EXCEPT !.data = d],
                   mode |-> IF StartsWith(url, "blob:") THEN "cors" ELSE "proxy"]>>

\* The CSV renderer and what follows its failure: the specification of the
\* claim about the table it builds.
NextCsv ==
  \/ \E i \in DOMAIN cycles : ParseSettled(i) /\ UNCHANGED others
  \/ \E i \in DOMAIN cycles : FallbackSettled(i) /\ UNCHANGED others

SpecCsv == InitCsv /\ [][NextCsv]_vars

(* ------------------------------ rendering ----------------------------- *)
\* JavaScript truthiness of the four pieces of state, as the render tests them.
HasError == error # <<>>
HasContent == content # <<>>
HasTable == tableData.html # <<>>
HasHtml == htmlContent # <<>> /\ htmlContent[1] # ""

\* The branch the component returns.
Rendered ==
  IF HasError THEN "error"
  ELSE IF ~HasContent /\ ~HasTable /\ ~HasHtml THEN "loading"
  ELSE IF HasTable THEN "table"
  ELSE IF HasHtml THEN "html"
  ELSE content[1].type

(* ------------------------- interaction bridge ------------------------- *)
\* The branches whose outermost element is a <div>: rendering one after
\* another keeps the element and updates it in place.
DivRooted(branch) == branch \in {"error", "loading", "table", "html", "download"}

\* The outermost element of the last render stays in the document.
RootKept == mounted /\ (Rendered' = Rendered \/ (DivRooted(Rendered) /\ DivRooted(Rendered')))

\* The inner container of the table branch stays in the document.
InnerKept == mounted /\ Rendered = "table" /\ Rendered' = "table"

\* Where a listener, or the element a cleanup holds, is after the render.
Relocate(element) ==
  IF element = "inner" /\ ~InnerKept THEN "detached"
  ELSE IF element = "root" /\ ~RootKept THEN "detached"
  ELSE element

\* The listeners after the render, before any effect runs.
Moved(handlers) ==
  [root |-> IF RootKept THEN handlers.root ELSE 0,
   inner |-> IF InnerKept THEN handlers.inner ELSE 0,
   detached |-> handlers.detached
                  + (IF RootKept THEN 0 ELSE handlers.root)
                  + (IF InnerKept THEN 0 ELSE handlers.inner)]

\* contentRef.current after the render: the element of the branch that
\* carries ref={contentRef}.
RefOf(branch) ==
  IF branch = "table" THEN "inner"
  ELSE IF branch = "html" THEN "root"
  ELSE "none"

\* The blob of a cycle waiting in a tabular renderer makes the renderer throw.
ParseFails(c) ==
  \/ c.kind = "spreadsheet" /\ (~c.blob.valid \/ c.blob.items = 0)
  \/ c.kind = "csv" /\ Len(c.blob.data) = 0

\* The step hands a new sheet map to setTableData.
SetsTable ==
  \E i \in DOMAIN cycles :
    /\ cycles[i].pc = "parse"
    /\ cycles[i].kind \in {"spreadsheet", "csv"}
    /\ i \in DOMAIN cycles' /\ cycles'[i] # cycles[i]
    /\ ~ParseFails(cycles[i])

\* One of the dependencies [tableData.html, htmlContent] differs, by
\* Object.is, from the render before.
DepsChanged ==
  \/ tableData'.html # tableData.html
  \/ htmlContent' # htmlContent
  \/ SetsTable

\* The render that follows a change of state, and the effect of the click
\* listener with it: when a dependency has changed, the cleanup of the last
\* run removes its listener from the element it holds, and the effect adds
\* one to contentRef.current if that is set and there is content.
Commit ==
  LET target == Relocate(dom.cleanup)
      cleaned == IF target # "none"
                   THEN [Moved(dom.handlers) EXCEPT ![target] = @ - 1]
                   ELSE Moved(dom.handlers)
      ref == RefOf(Rendered')
      attach == ref # "none" /\ (HasTable' \/ HasHtml')
  IN  dom' = IF DepsChanged
               THEN [ref |-> ref,
                     handlers |-> IF attach THEN [cleaned EXCEPT ![ref] = @ + 1] ELSE cleaned,
                     cleanup |-> IF attach THEN ref ELSE "none"]
               ELSE [ref |-> ref, handlers |-> Moved(dom.handlers), cleanup |-> target]

\* handleClick posting for every click, without the test of link and link.href.
handleClickAnyTarget(target, listeners) ==
  [posts |-> listeners, prevented |-> listeners > 0]

\* What the listeners on the path of a click do: each, for an anchor that
\* has an href, calls preventDefault and posts one linkClick message.
handleClick(target, listeners) ==
  [posts |-> IF target = "link" THEN listeners ELSE 0,
   prevented |-> target = "link" /\ listeners > 0]

\* What a click can hit in a branch: an anchor with an href, an anchor
\* without one, or anything else. The table and HTML branches show markup of
\* the response; the error banner and the download branch have one link.
Targets(branch) ==
  IF branch \in {"table", "html"} THEN {"link", "anchor", "other"}
  ELSE IF branch = "download" THEN {"link", "other"}
  ELSE IF branch = "error" /\ HasContent /\ content[1].type = "download" THEN {"link", "other"}
  ELSE {"other"}

\* The listeners a click in the rendered branch bubbles through.
ListenersOn(branch) ==
  IF branch = "table" THEN dom.handlers.inner + dom.handlers.root ELSE dom.handlers.root

\* The user clicks in the rendered view (the Reload button and the select
\* have actions of their own).
Click ==
  /\ mounted
  /\ \E target \in Targets(Rendered) :
       lastClick' = [branch |-> Rendered, target |-> target,
                     posts |-> handleClick(target, ListenersOn(Rendered)).posts,
                     prevented |-> handleClick(target, ListenersOn(Rendered)).prevented]
  /\ UNCHANGED <<view, handled, dom, requests>>

\* The content types of the bridge's specification: one per branch a render
\* can take.
BridgeTypes == {{HTML}, {CSV}, {PDF}, {OCTET}}

\* The view with its listeners: every handler with the render and the
\* effect that follow it, and the clicks of the user.
NextBridge ==
  \/ Mount /\ Commit /\ UNCHANGED <<handled, lastClick, requests>>
  \/ UrlChange /\ Commit /\ UNCHANGED <<handled, lastClick, requests>>
  \/ Reload /\ Commit /\ UNCHANGED <<handled, lastClick, requests>>
  \/ SheetChange /\ Commit /\ UNCHANGED <<handled, lastClick, requests>>
  \/ \E i \in DOMAIN cycles : FetchSettled(i) /\ Commit /\ UNCHANGED <<handled, lastClick, requests>>
  \/ \E i \in DOMAIN cycles :
       BodySettled(i, BridgeTypes) /\ Commit /\ UNCHANGED <<handled, lastClick, requests>>
  \/ \E i \in DOMAIN cycles : ParseSettled(i) /\ Commit /\ UNCHANGED <<handled, lastClick, requests>>
  \/ \E i \in DOMAIN cycles : FallbackSettled(i) /\ Commit /\ UNCHANGED <<handled, lastClick, requests>>
  \/ Click

SpecBridge == Init /\ [][NextBridge]_vars

(* ---------------------------- proxy server ---------------------------- *)
\* A string new URL() cannot parse: it has no scheme.
RelativeUrl == <<"report", ".pdf">>

\* req.query.url: absent, or a string.
Queries == {<<>>} \cup {<<u>> : u \in URLs \cup {RelativeUrl}}

\* The scheme new URL(url) finds, "" when it throws; "http" stands for the
\* protocols 'http:' and 'https:'.
Scheme(u) ==
  IF StartsWith(u, "http") THEN "http"
  ELSE IF StartsWith(u, "blob:") THEN "blob:"
  ELSE IF StartsWith(u, "ftp") THEN "ftp"
  ELSE ""

\* Validate that lets every url through that new URL() can parse.
ValidateAnyScheme(query) ==
  IF query = <<>> \/ query[1] = EmptyUrl THEN <<"URL parameter is required">>
  ELSE IF Scheme(query[1]) = "" THEN <<"Invalid URL format">>
  ELSE <<>>

\* The validation of GET /proxy: the error it answers with, <<>> when the
\* url passes.
Validate(query) ==
  IF query = <<>> \/ query[1] = EmptyUrl THEN <<"URL parameter is required">>
  ELSE IF Scheme(query[1]) = "" THEN <<"Invalid URL format">>
  ELSE IF Scheme(query[1]) # "http" THEN <<"Only HTTP/HTTPS URLs are allowed">>
  ELSE <<>>

\* res before anything is set: no status line written, no Content-Type.
\* sends counts the calls of res.send, res.json and pipe.
JSON == "application/json"

NoResponse == [status |-> 0, type |-> {}, body |-> <<>>, sends |-> 0]

\* A request as it arrives: its route and input, the await its handler
\* waits in, whether the upstream fetch was issued and how it settled, the
\* upstream Content-Type, the browser of the request and how often one was
\* launched, the awaits of the HTML branch completed, what the try block
\* threw, and the response.
NewRequest(route, input) ==
  [route |-> route, input |-> input, pc |-> "done", fetched |-> FALSE,
   upstream |-> "none", contentType |-> {}, browser |-> "none", launches |-> 0,
   completed |-> 0, failure |-> <<>>, res |-> NoResponse]

\* res.send(body) or pipe with the status and Content-Type set before it;
\* once a response has been sent, another send throws and changes nothing.
Send(res, status, type, body) ==
  IF res.status = 0
    THEN [status |-> status, type |-> type, body |-> body, sends |-> res.sends + 1]
    ELSE [res EXCEPT !.sends = @ + 1]

\* res.status(status).json({ error: message })
Json(res, status, message) == Send(res, status, {JSON}, <<"error">> \o message)

SetRequest(i, rec) == requests' = [requests EXCEPT ![i] = rec]

\* The outer catch block of GET /proxy.
ProxyCatch(r, message) ==
  [r EXCEPT !.pc = "done", !.failure = message,
            !.res = Json(r.res, 500, <<"Error fetching URL: ">> \o message)]

\* GET /proxy from the arrival of the request to its first await, for a url
\* parameter of queries.
ProxyArrives(queries) ==
  /\ Len(requests) < MaxRequests
  /\ \E query \in queries :
       requests' = Append(requests,
         IF Validate(query) # <<>>
           THEN [NewRequest("proxy", query) EXCEPT !.res = Json(NoResponse, 400, Validate(query))]
           ELSE [NewRequest("proxy", query) EXCEPT !.pc = "fetch", !.fetched = TRUE])
  /\ UNCHANGED <<view, handled, dom, lastClick>>

ProxyRequest == ProxyArrives(Queries)

\* The content types of upstream responses: one per branch of the handler,
\* and no header at all.
UpstreamTypes == {{}, {HTML}, {DOCX}, {MSWORD}}

\* await fetch(url, ...) settles: a rejection (network error, timeout), a
\* status outside 2xx, or a response, its Content-Type header one of types,
\* whose headers are copied and whose branch is entered: pipe runs at once,
\* the others await.
UpstreamAnswers(i, types) ==
  /\ requests[i].pc = "fetch"
  /\ \/ SetRequest(i, ProxyCatch([requests[i] EXCEPT !.upstream = "rejected"],
                                 <<"request failed">>))
     \/ SetRequest(i, ProxyCatch([requests[i] EXCEPT !.upstream = "not ok"],
                                 <<"Failed to fetch URL: ", "statusText">>))
     \/ \E header \in types :
          LET contentType == IF header # {} THEN header ELSE {OCTET}
              r == [requests[i] EXCEPT !.upstream = "ok", !.contentType = contentType,
                                       !.res.type = contentType]
          IN  SetRequest(i,
                IF Includes(contentType, HTML) THEN [r EXCEPT !.pc = "launch"]
                ELSE IF Includes(contentType, DOCX) THEN [r EXCEPT !.pc = "arrayBuffer"]
                ELSE [r EXCEPT !.pc = "done",
                               !.res = Send(r.res, 200, contentType, <<"upstream body">>)])
  /\ UNCHANGED <<view, handled, dom, lastClick>>

UpstreamSettled(i) == UpstreamAnswers(i, UpstreamTypes)

\* The awaits of the HTML branch, in order: puppeteer.launch, browser.newPage,
\* page.setUserAgent, page.goto, page.waitForFunction and page.content.
Stages == <<"launch", "newPage", "setUserAgent", "goto", "waitForFunction", "content">>

StageNumber(pc) == CHOOSE k \in 1..Len(Stages) : Stages[k] = pc

\* How an await of the HTML branch can fail: the three calls given a timeout
\* can run into it, and each can reject for another reason.
Rejections(pc) ==
  IF pc \in {"launch", "goto", "waitForFunction"} THEN {"timeout", "error"} ELSE {"error"}

\* Finally that closes the browser only when the try block did not throw.
FinallyOnSuccess(r) ==
  IF r.failure # <<>> THEN ProxyCatch(r, r.failure)
  ELSE IF r.browser = "open" THEN [r EXCEPT !.pc = "close"]
  ELSE [r EXCEPT !.pc = "done"]

\* The finally block of the HTML branch and what follows it: the browser, if
\* one was launched, is closed before the handler goes on, into the outer
\* catch block when the try block threw.
Finally(r) ==
  IF r.browser = "open" THEN [r EXCEPT !.pc = "close"]
  ELSE IF r.failure # <<>> THEN ProxyCatch(r, r.failure)
  ELSE [r EXCEPT !.pc = "done"]

\* StageSettled whose catch block logs the error and does not throw it on.
StageSettledSwallows(i) ==
  /\ requests[i].pc \in {Stages[k] : k \in 1..Len(Stages)}
  /\ LET r == requests[i]
     IN  \/ SetRequest(i,
              IF r.pc = "launch"
                THEN [r EXCEPT !.pc = "newPage", !.browser = "open", !.launches = @ + 1,
                               !.completed = @ + 1]
              ELSE IF r.pc = "content"
                THEN Finally([r EXCEPT !.completed = @ + 1,
                                       !.res = Send(r.res, 200, r.res.type, <<"page.content()">>)])
              ELSE [r EXCEPT !.pc = Stages[StageNumber(r.pc) + 1], !.completed = @ + 1])
         \/ \E reason \in Rejections(r.pc) :
              SetRequest(i, Finally(r))
  /\ UNCHANGED <<view, handled, dom, lastClick>>

\* An await of the HTML branch settles: the next call is made, after
\* page.content() the body is sent; a rejection is thrown on as a
\* 'Puppeteer error'. Either way the finally block runs at the end.
StageSettled(i) ==
  /\ requests[i].pc \in {Stages[k] : k \in 1..Len(Stages)}
  /\ LET r == requests[i]
     IN  \/ SetRequest(i,
              IF r.pc = "launch"
                THEN [r EXCEPT !.pc = "newPage", !.browser = "open", !.launches = @ + 1,
                               !.completed = @ + 1]
              ELSE IF r.pc = "content"
                THEN Finally([r EXCEPT !.completed = @ + 1,
                                       !.res = Send(r.res, 200, r.res.type, <<"page.content()">>)])
              ELSE [r EXCEPT !.pc = Stages[StageNumber(r.pc) + 1], !.completed = @ + 1])
         \/ \E reason \in Rejections(r.pc) :
              SetRequest(i, Finally([r EXCEPT !.failure = <<"Puppeteer error: ", r.pc, reason>>]))
  /\ UNCHANGED <<view, handled, dom, lastClick>>

\* await browser.close() settles. When it rejects, the rejection replaces
\* what the try block threw, and the browser may or may not be gone.
CloseSettled(i) ==
  /\ requests[i].pc = "close"
  /\ LET r == requests[i]
     IN  \/ SetRequest(i, IF r.failure # <<>>
                            THEN ProxyCatch([r EXCEPT !.browser = "closed"], r.failure)
                            ELSE [r EXCEPT !.pc = "done", !.browser = "closed"])
         \/ \E left \in {"open", "closed"} :
              SetRequest(i, ProxyCatch([r EXCEPT !.browser = left], <<"close failed">>))
  /\ UNCHANGED <<view, handled, dom, lastClick>>

\* The awaits of the Word branch settle: response.arrayBuffer(), then
\* mammoth.convertToHtml, after which the HTML is sent as text/html.
WordSettled(i) ==
  /\ requests[i].route = "proxy"
  /\ requests[i].pc \in {"arrayBuffer", "convertToHtml"}
  /\ LET r == requests[i]
     IN  \/ SetRequest(i,
              IF r.pc = "arrayBuffer" THEN [r EXCEPT !.pc = "convertToHtml"]
              ELSE [r EXCEPT !.pc = "done",
                             !.res = Send(r.res, 200, {HTML}, <<"mammoth html">>)])
         \/ SetRequest(i, ProxyCatch(r, <<r.pc, " failed">>))
  /\ UNCHANGED <<view, handled, dom, lastClick>>

\* The server started and no request received; no view takes part.
InitServer == Init /\ url = EmptyUrl

NextProxy ==
  \/ ProxyRequest
  \/ \E i \in DOMAIN requests : UpstreamSettled(i)
  \/ \E i \in DOMAIN requests : StageSettled(i)
  \/ \E i \in DOMAIN requests : CloseSettled(i)
  \/ \E i \in DOMAIN requests : WordSettled(i)

\* The proxy endpoint under requests of any url.
SpecProxy == InitServer /\ [][NextProxy]_vars

\* A request for a page goes on at the await it waits in.
RenderSettled(i) ==
  \/ UpstreamAnswers(i, {{HTML}})
  \/ StageSettled(i)
  \/ CloseSettled(i)

NextRender ==
  \/ ProxyArrives({<<HttpUrl>>})
  \/ \E i \in DOMAIN requests : UpstreamAnswers(i, {{HTML}})
  \/ \E i \in DOMAIN requests : StageSettled(i)
  \/ \E i \in DOMAIN requests : CloseSettled(i)

\* The proxy endpoint under requests for pages, every await settling in the
\* end: fetch, launch, goto and waitForFunction are given timeouts, the other
\* calls are answered by the browser that was launched.
SpecRender ==
  /\ InitServer
  /\ [][NextRender]_vars
  /\ \A i \in 1..MaxRequests : WF_vars(i \in DOMAIN requests /\ RenderSettled(i))

\* The MIME types the fileFilter of multer lets through.
AllowedTypes ==
  {PDF, CSV, XLS, XLSX, MSWORD, DOCX, PPT, PPTX, "image/jpeg", "image/png"}

\* The uploads: the part named 'file' is absent, or is a file with a name,
\* the MIME type its part declares, and bytes mammoth can convert or not
\* (a .docx document can be intact or damaged, another file is no document).
Files ==
  {[name |-> n, mimetype |-> m, converts |-> c] :
     n \in {"report.docx", "report.pdf"}, m \in AllowedTypes \cup {OCTET, HTML}, c \in BOOLEAN}

Uploads == {<<>>} \cup {<<f>> : f \in {g \in Files : g.converts => g.name = "report.docx"}}

\* Converts with the legacy Word type converted too.
ConvertsAnyWord(mimetype) == Includes({mimetype}, DOCX) \/ Includes({mimetype}, MSWORD)

\* The test of POST /upload for the branch that converts.
Converts(mimetype) == Includes({mimetype}, DOCX)

\* POST /upload from the arrival of the request to its first await: multer
\* refuses a type outside its list and the error middleware answers; the
\* handler answers a request without file, awaits mammoth for a .docx type
\* and sends every other file as it came.
UploadRequest ==
  /\ Len(requests) < MaxRequests
  /\ \E input \in Uploads :
       requests' = Append(requests,
         LET r == NewRequest("upload", input)
         IN  IF input = <<>>
               THEN [r EXCEPT !.res = Json(r.res, 400, <<"No file uploaded">>)]
             ELSE IF input[1].mimetype \notin AllowedTypes
               THEN [r EXCEPT !.failure = <<"Unsupported file type: ", input[1].mimetype>>,
                              !.res = Json(r.res, 500, <<"Internal server error">>)]
             ELSE IF Converts(input[1].mimetype)
               THEN [r EXCEPT !.pc = "convertToHtml"]
             ELSE [r EXCEPT !.res = Send(r.res, 200, {input[1].mimetype}, <<"file buffer">>)])
  /\ UNCHANGED <<view, handled, dom, lastClick>>

\* await mammoth.convertToHtml({ buffer }) settles.
UploadSettled(i) ==
  /\ requests[i].route = "upload"
  /\ requests[i].pc = "convertToHtml"
  /\ LET r == requests[i]
     IN  SetRequest(i,
           IF r.input[1].converts
             THEN [r EXCEPT !.pc = "done", !.res = Send(r.res, 200, {HTML}, <<"mammoth html">>)]
             ELSE [r EXCEPT !.pc = "done", !.failure = <<"convertToHtml failed">>,
                            !.res = Json(r.res, 500, <<"Error processing file: ",
                                                       "convertToHtml failed">>)])
  /\ UNCHANGED <<view, handled, dom, lastClick>>

NextUpload ==
  \/ UploadRequest
  \/ \E i \in DOMAIN requests : UploadSettled(i)

\* The upload endpoint under uploads of any file.
SpecUpload == InitServer /\ [][NextUpload]_vars

(* ============================== claims ================================ *)
HasGuidance(message) == \E k \in 1..Len(message) : message[k] = ProxyGuidance

\* The step settles an await of cycle i.
Settles(i) == i \in DOMAIN cycles' /\ cycles'[i] # cycles[i]

\* The step starts a cycle: fetchContent issues its request.
Starts == Len(cycles') > Len(cycles)

\* C1: once a newer cycle has started, a settling await of an older cycle
\* (its fetch, its parse or its fallback fetch) never changes the display
\* state: only the most recently started cycle writes content, tableData,
\* htmlContent and error.
C1_OnlyLatestCycleWrites ==
  [][\A i \in DOMAIN cycles :
       (i < Len(cycles) /\ ~Starts /\ Settles(i)) => display' = display]_vars

\* C2: at most one of error, table data, rich HTML and embed/download
\* content is set in any reachable state.
C2_OneVariantActive ==
  Cardinality({v \in {"error", "table", "html", "content"} :
                 \/ v = "error" /\ HasError
                 \/ v = "table" /\ HasTable
                 \/ v = "html" /\ HasHtml
                 \/ v = "content" /\ HasContent}) <= 1

\* The categories of the dispatcher in their order of priority, each with
\* the substrings that select it.
Priority ==
  << [renderer |-> "pdf", needles |-> {PDF}],
     [renderer |-> "image", needles |-> {IMAGE}],
     [renderer |-> "spreadsheet", needles |-> {XLSX, XLS}],
     [renderer |-> "csv", needles |-> {CSV}],
     [renderer |-> "html", needles |-> {MSWORD, DOCX, HTML}],
     [renderer |-> "ppt", needles |-> {PPT, PPTX}] >>

Matching(ct) == {k \in 1..Len(Priority) : Priority[k].needles \cap ct # {}}

FirstMatch(ct) ==
  IF Matching(ct) = {} THEN "other"
  ELSE Priority[CHOOSE k \in Matching(ct) : \A j \in Matching(ct) : k <= j].renderer

\* The state right after handleContentType has dispatched for cycle
\* handled.cycle is the one the renderer r alone produces: an embed or a
\* download link for the object URL just created, or the cycle waiting in the
\* branch of r with nothing displayed yet.
DispatchedTo(r) ==
  LET i == handled.cycle
  IN  IF r \in {"spreadsheet", "csv", "html"}
        THEN cycles[i].pc = "parse" /\ cycles[i].kind = r
      ELSE /\ cycles[i] = Finished
           /\ content # <<>>
           /\ content[1].url = objectUrls
           /\ content[1].type = (IF r \in {"pdf", "image"} THEN r ELSE "download")
           /\ content[1].message = (IF r = "ppt" THEN <<PptMessage>>
                                    ELSE IF r = "other" THEN <<OtherMessage>>
                                    ELSE <<>>)

\* The step is a call of handleContentType.
Dispatches == handled' # handled

\* What a dispatch leaves alone: everything but content and the cycle.
DispatchFrame ==
  /\ error' = error
  /\ tableData' = tableData
  /\ htmlContent' = htmlContent
  /\ (handled'.cycle \in DOMAIN cycles /\ cycles[handled'.cycle].pc = "body")

\* C3: for every content-type string handleContentType selects the first
\* category, in the order PDF, image/, spreadsheet, CSV, Word/HTML,
\* PowerPoint, else download, one of whose substrings the string contains,
\* and the resulting state is the one that category alone produces: the
\* later categories the string also matches have no effect.
C3_FirstMatchWins ==
  [][Dispatches =>
       /\ DispatchedTo(FirstMatch(handled.contentType))'
       /\ (FirstMatch(handled'.contentType) \in {"spreadsheet", "csv", "html"}
            => content' = content)
       /\ DispatchFrame]_vars

\* A content type matching several categories has been dispatched to the
\* first of them.
C3_Witness ==
  /\ handled.cycle > 0
  /\ Cardinality(Matching(handled.contentType)) >= 2
  /\ DispatchedTo(FirstMatch(handled.contentType))

\* C4 as claimed: every content type that contains "image/" is dispatched
\* to the image renderer, whatever else it contains.
C4_ImageAlways ==
  [][(Dispatches /\ Includes(handled'.contentType, IMAGE)) => DispatchedTo("image")']_vars

\* C4: every content type that contains "image/" and does not contain
\* "application/pdf" is dispatched to the image renderer, whatever else it
\* contains; one that contains both is dispatched to the PDF renderer.
C4_ImageUnlessPdf ==
  [][(Dispatches /\ Includes(handled'.contentType, IMAGE)) =>
       IF Includes(handled'.contentType, PDF)
         THEN DispatchedTo("pdf")'
         ELSE DispatchedTo("image")']_vars

\* An image is displayed for a content type that holds "image/" and the
\* substring of a later category.
C4_Witness ==
  /\ handled.cycle > 0
  /\ Includes(handled.contentType, IMAGE)
  /\ Cardinality(Matching(handled.contentType)) >= 2
  /\ ~Includes(handled.contentType, PDF)
  /\ DispatchedTo("image")

\* C5: every start of a fetch cycle leaves content, tableData, htmlContent
\* and error cleared and the request of the new cycle in flight: the view
\* shows Loading when the request starts, whatever it showed before.
C5_ResetBeforeRequest ==
  [][Starts =>
       /\ content' = <<>>
       /\ tableData' = NullTable
       /\ htmlContent' = <<>>
       /\ error' = <<>>
       /\ Rendered' = "loading"
       /\ cycles'[Len(cycles')].pc = "fetch"
       /\ cycles'[Len(cycles')].url = url'
       /\ \A i \in DOMAIN cycles : cycles'[i] = cycles[i]]_vars

\* A second cycle has its request in flight over a cleared display after the
\* first cycle had produced a result.
C5_Witness ==
  /\ Len(cycles) = 2
  /\ cycles[1] = Finished
  /\ objectUrls > 0
  /\ cycles[2].pc = "fetch"
  /\ Rendered = "loading"

\* The step is the failure of the try block of cycle i: its fetch rejects or
\* is not ok, its body cannot be read, or its renderer throws.
FailsIn(i) ==
  \/ cycles[i].pc = "fetch" /\ cycles'[i].pc \in {"fallback", "done"}
  \/ cycles[i].pc = "body" /\ cycles'[i].pc \in {"fallback", "done"} /\ objectUrls' = objectUrls
  \/ cycles[i].pc = "parse" /\ cycles'[i].pc # "parse" /\ ParseFails(cycles[i])

\* C6 as claimed: every error message the view shows, the one for a missing
\* URL included, holds the guidance to verify the proxy server.
C6_EveryErrorHasGuidance == HasError => HasGuidance(error[1])

\* C6: whenever the try block of a cycle fails (network error, response that
\* is not ok, unreadable body, spreadsheet or CSV parse failure) the step sets
\* an error message that holds the guidance to verify the proxy server; the
\* only other error is the one for a missing URL, 'No URL or link provided',
\* which is set without any request and holds no such guidance.
C6_FailureSetsGuidance ==
  [][/\ \A i \in DOMAIN cycles :
          FailsIn(i) => /\ HasError'
                        /\ error'[1][1] = "Failed to load content: "
                        /\ HasGuidance(error'[1])
     /\ (HasError' /\ error' # error /\ cycles' = cycles)
          => /\ url' = EmptyUrl
             /\ error' = <<NoUrlMessage>>
             /\ ~HasGuidance(error'[1])
             /\ <<content, tableData, htmlContent>>' = <<content, tableData, htmlContent>>]_vars

\* The renderer of a workbook without sheets has thrown, the error with the
\* guidance is displayed and the fallback of the cycle is pending.
C6_Witness ==
  /\ error = <<FailedMessage(NoSheetsError)>>
  /\ HasGuidance(error[1])
  /\ \E i \in DOMAIN cycles : cycles[i].pc = "fallback"

\* What the settling of a fallback fetch does: it ends the cycle and either
\* sets a download link for the bytes it obtained or sets nothing.
FallbackOutcome(i) ==
  /\ cycles'[i] = Finished
  /\ tableData' = tableData
  /\ htmlContent' = htmlContent
  /\ error' = error
  /\ \/ content' = content /\ objectUrls' = objectUrls
     \/ /\ objectUrls' = objectUrls + 1
        /\ content' = <<[type |-> "download", url |-> objectUrls', message |-> <<>>]>>

\* C7 as claimed: every failing cycle falls back to a download-only fetch,
\* in a relaxed (no-cors) mode for a blob reference, and the fallback sets
\* nothing but a download link.
C7_FallbackRelaxedForBlob ==
  [][\A i \in DOMAIN cycles :
       /\ FailsIn(i) => /\ cycles'[i].pc = "fallback"
                        /\ StartsWith(cycles[i].url, "blob:") => cycles'[i].mode = "no-cors"
       /\ (cycles[i].pc = "fallback" /\ Settles(i)) => FallbackOutcome(i)]_vars

\* C7: a failing cycle falls back to a download-only fetch when its URL
\* starts with blob: or http, and to nothing otherwise; the fallback for a
\* blob reference repeats the fetch in mode cors, the one for an http(s) URL
\* fetches the URL itself in the relaxed mode no-cors; a fallback that
\* obtains bytes sets a download link for them, one that fails sets nothing,
\* and neither touches the error, the table data or the rich HTML.
C7_FallbackPerScheme ==
  [][\A i \in DOMAIN cycles :
       /\ FailsIn(i) =>
            IF StartsWith(cycles[i].url, "blob:")
              THEN cycles'[i].pc = "fallback" /\ cycles'[i].mode = "cors"
            ELSE IF StartsWith(cycles[i].url, "http")
              THEN cycles'[i].pc = "fallback" /\ cycles'[i].mode = "no-cors"
            ELSE cycles'[i] = Finished /\ content' = content
       /\ (cycles[i].pc = "fallback" /\ Settles(i)) => FallbackOutcome(i)]_vars

\* The fallback of a failed cycle has obtained bytes: a download link without
\* a message is offered beside the error.
C7_Witness ==
  /\ HasError
  /\ HasContent
  /\ content[1].type = "download"
  /\ content[1].message = <<>>
  /\ ~HasTable
  /\ htmlContent = <<>>
  /\ \A i \in DOMAIN cycles : cycles[i] = Finished

\* C8: when the renderer of a cycle finds no row in a CSV text, or no sheet
\* in a workbook, the step sets the "no data" error of that input and leaves
\* the table data alone, and the rest of the cycle (its fallback) never sets
\* table data; a table that is set always has a sheet, and a CSV table a row.
C8_NoDataNoTable ==
  [][/\ \A i \in DOMAIN cycles :
          /\ (/\ cycles[i].pc = "parse"
              /\ Settles(i)
              /\ cycles[i].kind \in {"csv", "spreadsheet"}
              /\ ParseFails(cycles[i])
              /\ cycles[i].blob.valid)
               => /\ error' = <<FailedMessage(IF cycles[i].kind = "csv"
                                                THEN NoCsvDataError ELSE NoSheetsError)>>
                  /\ tableData' = tableData
                  /\ cycles'[i].pc \in {"fallback", "done"}
          /\ (cycles[i].pc = "fallback" /\ Settles(i))
               => tableData' = tableData /\ cycles'[i] = Finished
     /\ HasTable' => /\ Len(tableData'.html[1]) > 0
                     /\ \A k \in 1..Len(tableData'.html[1]) :
                          tableData'.html[1][k].html # <<"table", <<>>, <<>>>>]_vars

\* A CSV text without rows has been reported and no table is set.
C8_Witness ==
  /\ error = <<FailedMessage(NoCsvDataError)>>
  /\ ~HasTable

C11_WordAlwaysConverted == htmlContent # <<>> => htmlContent[1] # WordBytes

\* The table of the displayed CSV sheet: <<"table", header cells, rows>>.
CsvTable(td) == td.html[1][1].html

\* C17: the CSV renderer, for a text whose first row has K cells, sets a
\* table of K header cells and, for every later row, exactly K cells: the
\* row's own cell where it has one, the empty string where it is shorter, and
\* nothing for its cells beyond K; the step sets no error and ends the cycle.
C17_CsvRowsFitHeader ==
  [][\A i \in DOMAIN cycles :
       (/\ cycles[i].pc = "parse"
        /\ Settles(i)
        /\ cycles[i].kind = "csv"
        /\ Len(cycles[i].blob.data) > 0)
         => LET data == cycles[i].blob.data
                K == Len(data[1])
            IN  /\ HasTable'
                /\ Keys(tableData'.html[1]) = <<"Sheet1">>
                /\ tableData'.activeSheet = <<"Sheet1">>
                /\ Len(CsvTable(tableData')[2]) = K
                /\ Len(CsvTable(tableData')[3]) = Len(data) - 1
                /\ \A r \in 1..(Len(data) - 1) :
                     /\ Len(CsvTable(tableData')[3][r]) = K
                     /\ \A c \in 1..K :
                          CsvTable(tableData')[3][r][c]
                            = IF c <= Len(data[r + 1]) THEN data[r + 1][c] ELSE ""
                /\ error' = error
                /\ cycles'[i] = Finished]_vars

\* A table of two columns is displayed whose only row ends in an empty cell,
\* as the renderer fills a row of one cell.
C17_Witness ==
  /\ ~HasError
  /\ HasTable
  /\ CsvTable(tableData)[1] = "table"
  /\ Len(CsvTable(tableData)[2]) = 2
  /\ CsvTable(tableData)[3] = <<<<"x", "">>>>

\* C18: at most one object URL is created and not yet released: every object
\* URL is revoked when a later cycle, or a later step of its own cycle,
\* supersedes it. The source never calls URL.revokeObjectURL, so the URLs
\* created are the URLs unreleased.
C18_ObjectUrlsReleased == objectUrls <= 1

\* C19: whenever the sheet map of the table data is set, the active sheet is
\* set too and is one of the map's keys.
C19_ActiveSheetIsKey ==
  tableData.html # <<>>
    => /\ tableData.activeSheet # <<>>
       /\ \E k \in 1..Len(tableData.html[1]) :
            tableData.activeSheet[1] = Keys(tableData.html[1])[k]

\* The table data of a workbook of two sheets is set, its first sheet
\* active, while the error of another cycle is displayed.
C19_Witness ==
  /\ HasError
  /\ tableData.html # <<>>
  /\ Len(tableData.html[1]) = 2
  /\ tableData.activeSheet = <<"Sheet1">>

\* C20: once the view is mounted and every cycle it started has ended, the
\* view is not on the loading message: it shows an error, a table, rich
\* HTML, an embedded document or a download link.
C20_SettledViewLeavesLoading ==
  (mounted /\ cycles # <<>> /\ \A i \in DOMAIN cycles : cycles[i] = Finished)
    => Rendered # "loading"

\* The listeners attached to elements that are in the document.
Attached == dom.handlers.root + dom.handlers.inner

\* C12: a click in the displayed table or rich HTML on an anchor with an
\* href is cancelled and posts exactly one linkClick message; a click on
\* anything that is no anchor posts nothing and is not cancelled; either way
\* the click changes nothing of the view's state and starts no cycle.
C12_LinkClickPostsOnce ==
  [][lastClick' # lastClick
       => /\ lastClick'.branch \in {"table", "html"}
               => /\ lastClick'.target = "link"
                       => lastClick'.posts = 1 /\ lastClick'.prevented
                  /\ lastClick'.target = "other"
                       => lastClick'.posts = 0 /\ ~lastClick'.prevented
          /\ view' = view]_vars

\* A link of the displayed table has been clicked and its one message posted.
C12_Witness ==
  /\ lastClick.branch = "table"
  /\ lastClick.target = "link"
  /\ lastClick.posts = 1
  /\ Rendered = "table"

\* C13: no more than one click listener is attached; while the table or the
\* rich HTML is displayed exactly one is, on the element contentRef holds;
\* and while neither is displayed (loading, error, embedded document,
\* download) the listener of the earlier content is attached to no element
\* of the document.
C13_OneHandlerOnDisplayedContent ==
  /\ Attached + dom.handlers.detached <= 1
  /\ Rendered \in {"table", "html"}
       => dom.ref # "none" /\ dom.handlers[dom.ref] = 1 /\ dom.cleanup = dom.ref
  /\ (mounted /\ Rendered \notin {"table", "html"}) => Attached = 0

\* The url of a request of GET /proxy is missing, unparsable or not http(s).
BadUrl(r) == r.input = <<>> \/ r.input[1] = EmptyUrl \/ Scheme(r.input[1]) # "http"

\* The response is a JSON body with an error message.
JsonError(res) == res.type = {JSON} /\ Len(res.body) > 1 /\ res.body[1] = "error"

\* C14: a request of GET /proxy whose url is missing, unparsable or of
\* another scheme than http(s) is answered 400 with a JSON error, and no
\* fetch is issued and no browser launched for it; a request whose upstream
\* fetch rejects or ends in a status outside 2xx is answered 500 with a JSON
\* error.
C14_ProxyRejectsBadUrl ==
  \A i \in DOMAIN requests :
    requests[i].route = "proxy"
      => /\ BadUrl(requests[i])
              => /\ requests[i].pc = "done"
                 /\ requests[i].res.status = 400
                 /\ JsonError(requests[i].res)
                 /\ ~requests[i].fetched
                 /\ requests[i].launches = 0 /\ requests[i].browser = "none"
         /\ requests[i].upstream \in {"rejected", "not ok"}
              => /\ requests[i].pc = "done"
                 /\ requests[i].res.status = 500
                 /\ JsonError(requests[i].res)
                 /\ requests[i].launches = 0

\* A request for an ftp url has been refused and the fetch of another has
\* failed.
C14_Witness ==
  /\ Len(requests) = 2
  /\ requests[1].input = <<OtherUrl>> /\ requests[1].res.status = 400
  /\ requests[2].upstream = "rejected" /\ requests[2].res.status = 500

\* The position of a handler of GET /proxy in its HTML branch.
Rank(pc) ==
  IF pc = "fetch" THEN 0
  ELSE IF pc \in {Stages[k] : k \in 1..Len(Stages)} THEN StageNumber(pc)
  ELSE IF pc = "close" THEN Len(Stages) + 1
  ELSE Len(Stages) + 2

\* The upstream response of the request is text/html.
IsHtml(r) == r.route = "proxy" /\ r.upstream = "ok" /\ Includes(r.contentType, HTML)

\* C15: for an upstream response of type text/html the body is sent only
\* when launch, newPage, setUserAgent, goto, waitForFunction and content have
\* all completed; a handler that ends with one of them not completed has
\* answered 500 with a JSON error; no handler goes back to an earlier await
\* or launches a second browser; and every such request is answered.
C15_HtmlAnsweredAfterRendering ==
  /\ [](\A i \in DOMAIN requests :
          IsHtml(requests[i])
            => /\ requests[i].res.status = 200 => requests[i].completed = Len(Stages)
               /\ (requests[i].pc = "done" /\ requests[i].completed < Len(Stages))
                    => requests[i].res.status = 500 /\ JsonError(requests[i].res)
               /\ requests[i].launches <= 1)
  /\ [][\A i \in DOMAIN requests : Rank(requests'[i].pc) >= Rank(requests[i].pc)]_vars
  /\ \A i \in 1..MaxRequests :
       (i \in DOMAIN requests /\ IsHtml(requests[i]))
         ~> (i \in DOMAIN requests /\ requests[i].res.status # 0)

\* One request was answered with the rendered page, another with the error
\* of a navigation that timed out, its browser closed.
C15_Witness ==
  /\ Len(requests) = 2
  /\ requests[1].res.status = 200 /\ requests[1].res.body = <<"page.content()">>
  /\ requests[2].res.status = 500
  /\ requests[2].failure = <<"Puppeteer error: ", "goto", "timeout">>
  /\ requests[2].browser = "closed"

\* C16 as stated: a file named .docx that multer accepts is answered with
\* text/html and its conversion; every other accepted file with its own
\* MIME type and its bytes.
C16_DocxFileConverted ==
  \A i \in DOMAIN requests :
    (/\ requests[i].route = "upload" /\ requests[i].pc = "done"
     /\ requests[i].input # <<>>)
      => IF requests[i].input[1].name = "report.docx"
           THEN /\ requests[i].res.type = {HTML}
                /\ requests[i].res.body = <<"mammoth html">>
           ELSE requests[i].input[1].mimetype \in AllowedTypes
                  => /\ requests[i].res.type = {requests[i].input[1].mimetype}
                     /\ requests[i].res.body = <<"file buffer">>

\* C16, by the declared type: an upload whose MIME type is the .docx type is
\* answered with text/html and the conversion when mammoth converts it, and
\* with a 500 JSON error when it does not, never with its bytes; every other
\* accepted file, whatever its name, is answered once with its own MIME type
\* and its bytes.
C16_DocxTypeConverted ==
  \A i \in DOMAIN requests :
    (/\ requests[i].route = "upload" /\ requests[i].pc = "done"
     /\ requests[i].input # <<>>
     /\ requests[i].input[1].mimetype \in AllowedTypes)
      => IF requests[i].input[1].mimetype = DOCX
           THEN IF requests[i].input[1].converts
                  THEN /\ requests[i].res.status = 200
                       /\ requests[i].res.type = {HTML}
                       /\ requests[i].res.body = <<"mammoth html">>
                  ELSE /\ requests[i].res.status = 500
                       /\ JsonError(requests[i].res)
           ELSE /\ requests[i].res.status = 200
                /\ requests[i].res.type = {requests[i].input[1].mimetype}
                /\ requests[i].res.body = <<"file buffer">>
                /\ requests[i].res.sends = 1

\* A .docx upload of the .docx type has been answered with its conversion,
\* and a legacy Word upload with its bytes.
C16_Witness ==
  /\ Len(requests) = 2
  /\ requests[1].input = <<[name |-> "report.docx", mimetype |-> DOCX, converts |-> TRUE]>>
  /\ requests[1].res.body = <<"mammoth html">>
  /\ requests[2].input[1].mimetype = MSWORD
  /\ requests[2].res.body = <<"file buffer">>

\* C21: every request of GET /proxy is answered at most once: whatever the
\* path of its handler (validation failure, fetch failure, HTML rendering,
\* Word conversion, passthrough, failure while closing the browser), res.send,
\* res.json and pipe are called at most once between them.
C21_ProxyAnswersOnce ==
  \A i \in DOMAIN requests :
    requests[i].route = "proxy" => requests[i].res.sends <= 1

\* The await the handler of the request is in comes after puppeteer.launch
\* and before the end of the finally block.
HoldsBrowser(r) ==
  r.pc = "close" \/ (r.pc \in {Stages[k] : k \in 2..Len(Stages)})

\* C22: a request of GET /proxy launches at most one browser, and has one
\* exactly from the await of launch on. Its handler ends only after
\* browser.close() was awaited: on the success path and after a rejection or
\* timeout of newPage, setUserAgent, goto, waitForFunction or content the
\* browser is closed when the handler has ended, unless close() itself
\* rejected. A browser changes only in a step of its own request, whatever
\* the other requests do.
C22_BrowserClosedWithHandler ==
  /\ [](\A i \in DOMAIN requests :
          /\ requests[i].launches <= 1
          /\ (requests[i].browser # "none") <=> (requests[i].launches = 1)
          /\ (requests[i].browser = "open" /\ requests[i].failure # <<"close failed">>)
               => HoldsBrowser(requests[i])
          /\ (requests[i].pc = "done" /\ requests[i].launches = 1
                /\ requests[i].failure # <<"close failed">>)
               => requests[i].browser = "closed")
  /\ [][\A i \in DOMAIN requests :
          /\ (requests'[i].pc = "done" /\ requests[i].pc # "done" /\ requests[i].launches = 1)
               => requests[i].pc = "close"
          /\ requests'[i].browser # requests[i].browser
               => \A j \in DOMAIN requests : j # i => requests'[j] = requests[j]]_vars

\* Two requests launched a browser each; the load wait of the first timed
\* out, the page of the second was sent, and both browsers are closed.
C22_Witness ==
  /\ Len(requests) = 2
  /\ requests[1].pc = "done" /\ requests[2].pc = "done"
  /\ requests[1].failure = <<"Puppeteer error: ", "waitForFunction", "timeout">>
  /\ requests[1].launches = 1 /\ requests[1].browser = "closed"
  /\ requests[2].res.status = 200 /\ requests[2].res.body = <<"page.content()">>
  /\ requests[2].launches = 1 /\ requests[2].browser = "closed"
====
